---- MODULE Spec2Model ----
(***************************************************************************)
(* The single-game engine of the War simulation (src/main.go): playGame,   *)
(* drawCard, drawWarCards, handleWar, timeoutResult, determineWarWinner    *)
(* and handleDeepWar.  A card is its rank; Card{} is rank 0.  A pile is a  *)
(* sequence whose front is the next card to play.  Every call of           *)
(* shuffleDeck chooses one permutation of the pile it is given.            *)
(*                                                                         *)
(* One step of the model is one iteration of the trick loop up to the call *)
(* of handleWar (PlayTrick), one activation of handleWar up to its return  *)
(* or its call of handleDeepWar (HandleWar), one activation of             *)
(* handleDeepWar (HandleDeepWar), or the code after the loop (Finish).     *)
(* When the outermost handleWar returns, the step that returns also runs   *)
(* lines 124-130 of playGame (Settle).                                     *)
(*                                                                         *)
(* runSimulations is modelled around the game: StartGame is the call of    *)
(* playGame in iteration i of its loop, EndGame the return of playGame     *)
(* into stats[i], Fault a panic inside playGame caught by the deferred     *)
(* recover, Return the return of runSimulations.                           *)
(***************************************************************************)
EXTENDS Integers, Sequences, FiniteSets, TLC

VARIABLES
    handTime, shuffleTime, includeJokers, maxGameTime,  \* playGame's parameters
    playerA, playerB,   \* Player{DrawPile, WinningsPile}
    stats,              \* GameStats
    totalTime,          \* playGame's totalTime, in milliseconds
    warPile,            \* playGame's local warPile (main.go:122)
    warArg,             \* the warPile parameter of the running handleWar
    depth,              \* the depth parameter of the running handleWar
    pc,                 \* "loop" | "handleWar" | "handleDeepWar" | "done" in playGame,
                        \* "sim" | "returned" in runSimulations
    trick,              \* history of the current (or last) trick, read by the properties only
    gamesToPlay,        \* runSimulations' parameter
    game,               \* runSimulations' loop variable i
    results,            \* runSimulations' slice stats
    batch               \* history of runSimulations, read by the properties only

vars == <<handTime, shuffleTime, includeJokers, maxGameTime, playerA, playerB,
          stats, totalTime, warPile, warArg, depth, pc, trick,
          gamesToPlay, game, results, batch>>

------------------------------------------------------------------------------
(* Bounds of the model and constants of the program *)

MinRank == 2          \* lowest rank of createDeck
MaxRank == 3          \* highest ordinary rank (14 in the source)
NumSuits == 4         \* cards per rank
JokerRank == MaxRank + 1   \* rank of a joker (15 in the source)
WarDraws == 4         \* draw attempts per player and war level
maxTricks == 7        \* the trick ceiling (100000 in the source)
Millisecond == 1000000     \* time.Millisecond, in nanoseconds
NoCard == 0           \* Card{}.Rank

MaxHandTime == 2
MaxShuffleTime == 1
MaxGameTimeBound == 4

------------------------------------------------------------------------------
(* Sequences *)

Range(s) == {s[i] : i \in 1..Len(s)}

RemoveAt(s, i) == SubSeq(s, 1, i - 1) \o SubSeq(s, i + 1, Len(s))

FirstIndex(s, v) == CHOOSE i \in 1..Len(s) : s[i] = v /\ \A j \in 1..(i - 1) : s[j] # v

Count(s, v) == Cardinality({i \in 1..Len(s) : s[i] = v})

\* t is a rearrangement of s
IsPerm(s, t) == Len(s) = Len(t) /\ \A v \in Range(s) \cup Range(t) : Count(s, v) = Count(t, v)

Front(s) == SubSeq(s, 1, Len(s) - 1)

------------------------------------------------------------------------------
(* Deck builder *)

\* createDeck appending one joker only
createDeckOneJoker(jokers) ==
    [i \in 1..((MaxRank - MinRank + 1) * NumSuits) |-> MinRank + ((i - 1) \div NumSuits)]
        \o (IF jokers THEN <<JokerRank>> ELSE <<>>)

createDeck(jokers) ==
    [i \in 1..((MaxRank - MinRank + 1) * NumSuits) |-> MinRank + ((i - 1) \div NumSuits)]
        \o (IF jokers THEN <<JokerRank, JokerRank>> ELSE <<>>)

\* The orders rand.Shuffle can leave the pile in: all of its permutations.
RECURSIVE shuffleDeck(_)
shuffleDeck(deck) ==
    IF deck = <<>> THEN {<<>>}
    ELSE UNION {{<<v>> \o t : t \in shuffleDeck(RemoveAt(deck, FirstIndex(deck, v)))} : v \in Range(deck)}

------------------------------------------------------------------------------
(* Players *)

Total(player) == Len(player.DrawPile) + Len(player.WinningsPile)

\* The card drawCard returns after a reshuffle, and the draw pile it leaves.
ReshuffleCard(pile) == pile[1]
ReshufflePile(pile) == pile

\* drawCard reshuffling a copy of the winnings pile and keeping the pile
drawCardKeepsWinnings(player) ==
    IF Len(player.DrawPile) = 0
    THEN IF Len(player.WinningsPile) = 0
         THEN {[card |-> NoCard, shuffled |-> 0, player |-> player]}
         ELSE {[card |-> ReshuffleCard(p), shuffled |-> 1,
                player |-> [DrawPile |-> ReshufflePile(p), WinningsPile |-> player.WinningsPile]]
               : p \in shuffleDeck(player.WinningsPile)}
    ELSE {[card |-> player.DrawPile[1], shuffled |-> 0,
           player |-> [player EXCEPT !.DrawPile = Tail(player.DrawPile)]]}

\* drawCard leaving the drawn card on the draw pile
drawCardNoPop(player) ==
    IF Len(player.DrawPile) = 0
    THEN IF Len(player.WinningsPile) = 0
         THEN {[card |-> NoCard, shuffled |-> 0, player |-> player]}
         ELSE {[card |-> ReshuffleCard(p), shuffled |-> 1,
                player |-> [DrawPile |-> ReshufflePile(p), WinningsPile |-> <<>>]]
               : p \in shuffleDeck(player.WinningsPile)}
    ELSE {[card |-> player.DrawPile[1], shuffled |-> 0, player |-> player]}

drawCardEmptySignals(player) ==
    IF Len(player.DrawPile) = 0
    THEN IF Len(player.WinningsPile) = 0
         THEN {[card |-> NoCard, shuffled |-> 1, player |-> player]}
         ELSE {[card |-> ReshuffleCard(p), shuffled |-> 1,
                player |-> [DrawPile |-> ReshufflePile(p), WinningsPile |-> <<>>]]
               : p \in shuffleDeck(player.WinningsPile)}
    ELSE {[card |-> player.DrawPile[1], shuffled |-> 0,
           player |-> [player EXCEPT !.DrawPile = Tail(player.DrawPile)]]}

\* The outcomes of drawCard(player): the card, the reshuffle signal, the player after the call.
drawCard(player) ==
    IF Len(player.DrawPile) = 0
    THEN IF Len(player.WinningsPile) = 0
         THEN {[card |-> NoCard, shuffled |-> 0, player |-> player]}
         ELSE {[card |-> ReshuffleCard(p), shuffled |-> 1,
                player |-> [DrawPile |-> ReshufflePile(p), WinningsPile |-> <<>>]]
               : p \in shuffleDeck(player.WinningsPile)}
    ELSE {[card |-> player.DrawPile[1], shuffled |-> 0,
           player |-> [player EXCEPT !.DrawPile = Tail(player.DrawPile)]]}

------------------------------------------------------------------------------
(* History of a trick: what the properties below need to remember *)

\* The record of one reshuffle: the winnings pile before it, the card returned, the piles after it.
ReshRec(who, before, d) ==
    IF d.shuffled = 1
    THEN {[who |-> who, pre |-> before.WinningsPile, card |-> d.card,
           post |-> d.player.DrawPile, win |-> d.player.WinningsPile]}
    ELSE {}

Got(d) == IF d.card = NoCard THEN 0 ELSE 1

NoTrick ==
    [startA |-> 0, startB |-> 0, start |-> [Wars |-> 0, DeepWars |-> 0, TotalWarDepth |-> 0],
     cards |-> <<>>, drawn |-> 0, log |-> <<>>, resh |-> {}, winner |-> 0, award |-> 0,
     charges |-> 0, attempts |-> 0]

------------------------------------------------------------------------------
(* War *)

\* A war result that names the winner and credits nobody
WarResultNoCredit(w) == [Winner |-> w, PlayerATricks |-> 0, PlayerBTricks |-> 0]

WarResult(w) == [Winner |-> w, PlayerATricks |-> IF w = 1 THEN 1 ELSE 0,
                 PlayerBTricks |-> IF w = 2 THEN 1 ELSE 0]

\* The time drawWarCards charges for a draw that signalled a reshuffle (lines 158-161).
ShuffleChargeNone(shuffled) == 0
ShuffleCharge(shuffled) == IF shuffled > 0 THEN shuffleTime ELSE 0

\* The time drawWarCards charges for one draw attempt, whatever it returned (line 162).
AttemptChargeOnCard(card) == IF card = NoCard THEN 0 ELSE handTime
AttemptCharge(card) == handTime

\* Iterations i..WarDraws-1 of the loop of drawWarCards: the cards obtained, the
\* player afterwards, the reshuffles counted, the time charged and the attempts made.
RECURSIVE drawWarLoop(_, _, _, _, _, _, _)
drawWarLoop(who, i, player, cards, shuffles, time, resh) ==
    IF i >= WarDraws
    THEN {[cards |-> cards, player |-> player, shuffles |-> shuffles, time |-> time,
           attempts |-> i, resh |-> resh]}
    ELSE UNION {
        LET s == IF d.shuffled > 0 THEN shuffles + 1 ELSE shuffles
            t == time + ShuffleCharge(d.shuffled) + AttemptCharge(d.card)
            r == resh \cup ReshRec(who, player, d)
        IN  IF d.card = NoCard
            THEN {[cards |-> cards, player |-> d.player, shuffles |-> s, time |-> t,
                   attempts |-> i + 1, resh |-> r]}
            ELSE drawWarLoop(who, i + 1, d.player, Append(cards, d.card), s, t, r)
        : d \in drawCard(player)}

drawWarCards(who, player) == drawWarLoop(who, 0, player, <<>>, 0, 0, {})

\* timeoutResult with the tie going to player A
timeoutResultTieToA(pA, pB) == IF Total(pA) >= Total(pB) THEN WarResult(1) ELSE WarResult(2)

timeoutResult(pA, pB) == IF Total(pA) > Total(pB) THEN WarResult(1) ELSE WarResult(2)

\* determineWarWinner with the players exchanged
determineWarWinnerSwapped(cardsA, cardsB) ==
    IF Len(cardsA) = 0 THEN WarResult(1) ELSE WarResult(2)

determineWarWinner(cardsA, cardsB) == IF Len(cardsA) = 0 THEN WarResult(2) ELSE WarResult(1)

\* A war that awards no pile at all
AwardedPileNone(callerPile, calleePile) == <<>>

\* The pile playGame appends to the winner's winnings pile after handleWar
\* returned: its own local slice, which the appends inside handleWar do not reach.
AwardedPile(callerPile, calleePile) == callerPile

\* Lines 124-130 of playGame, run when the outermost handleWar has returned.
Settle(result, pA, pB, st, t, tr, wp) ==
    LET pile == AwardedPile(warPile, wp)
    IN  /\ playerA' = IF result.Winner = 1
                      THEN [pA EXCEPT !.WinningsPile = @ \o pile] ELSE pA
        /\ playerB' = IF result.Winner = 2
                      THEN [pB EXCEPT !.WinningsPile = @ \o pile] ELSE pB
        /\ stats' = [st EXCEPT !.PlayerATricks = @ + result.PlayerATricks,
                               !.PlayerBTricks = @ + result.PlayerBTricks]
        /\ totalTime' = t
        /\ trick' = [tr EXCEPT !.winner = result.Winner,
                               !.award = IF result.Winner \in {1, 2} THEN Len(pile) ELSE 0]
        /\ warPile' = <<>>
        /\ warArg' = <<>>
        /\ depth' = 0
        /\ pc' = "loop"

------------------------------------------------------------------------------
(* The game *)

\* The loop condition without the tests of the players' cards
LoopGuardNoCards ==
    /\ stats.Tricks < maxTricks
    /\ totalTime < maxGameTime

\* The loop condition with the trick ceiling tested one trick late
LoopGuardCeilingInclusive ==
    /\ Total(playerA) > 0
    /\ Total(playerB) > 0
    /\ stats.Tricks < maxTricks
    /\ totalTime <= maxGameTime

LoopGuardLate ==
    /\ Total(playerA) > 0
    /\ Total(playerB) > 0
    /\ stats.Tricks <= maxTricks
    /\ totalTime < maxGameTime

LoopGuard ==
    /\ Total(playerA) > 0
    /\ Total(playerB) > 0
    /\ stats.Tricks < maxTricks
    /\ totalTime < maxGameTime

ZeroStats ==
    [Tricks |-> 0, Wars |-> 0, DeepWars |-> 0, TotalWarDepth |-> 0, ShufflesA |-> 0,
     ShufflesB |-> 0, GameDuration |-> 0, Finished |-> FALSE, PlayerATricks |-> 0,
     PlayerBTricks |-> 0, Winner |-> 0]

HandTimes == 0..MaxHandTime
ShuffleTimes == 0..MaxShuffleTime
MaxGameTimes == -1..MaxGameTimeBound

\* The two hands playGame deals from a freshly built and shuffled deck (lines 98-102)
Deals(jokers) ==
    {[A |-> [DrawPile |-> SubSeq(deck, 1, Len(deck) \div 2), WinningsPile |-> <<>>],
      B |-> [DrawPile |-> SubSeq(deck, Len(deck) \div 2 + 1, Len(deck)), WinningsPile |-> <<>>]]
     : deck \in shuffleDeck(createDeck(jokers))}

\* A GameStats value with its GameNumber
Record(g, st) ==
    [GameNumber |-> g, Tricks |-> st.Tricks, Wars |-> st.Wars, DeepWars |-> st.DeepWars,
     TotalWarDepth |-> st.TotalWarDepth, ShufflesA |-> st.ShufflesA, ShufflesB |-> st.ShufflesB,
     GameDuration |-> st.GameDuration, Finished |-> st.Finished,
     PlayerATricks |-> st.PlayerATricks, PlayerBTricks |-> st.PlayerBTricks,
     Winner |-> st.Winner]

\* make([]GameStats, n), line 81
ZeroRecords(n) == [k \in 1..n |-> Record(0, ZeroStats)]

NoBatch == [calls |-> 0, faulted |-> {}, written |-> {}]

\* playGame, lines 98-106
Init ==
    /\ handTime \in HandTimes
    /\ shuffleTime \in ShuffleTimes
    /\ includeJokers \in BOOLEAN
    /\ maxGameTime \in MaxGameTimes
    /\ \E d \in Deals(includeJokers) :
          /\ playerA = d.A
          /\ playerB = d.B
    /\ stats = ZeroStats
    /\ totalTime = 0
    /\ warPile = <<>>
    /\ warArg = <<>>
    /\ depth = 0
    /\ pc = "loop"
    /\ trick = NoTrick
    /\ gamesToPlay = 1
    /\ game = 0
    /\ results = ZeroRecords(1)
    /\ batch = [NoBatch EXCEPT !.calls = 1]

\* Who takes a trick whose two cards differ (lines 131-137)
TrickWinnerLow(cardA, cardB) == IF cardA < cardB THEN 1 ELSE 2
TrickWinner(cardA, cardB) == IF cardA > cardB THEN 1 ELSE 2

\* playGame, lines 108-137: one iteration of the trick loop, up to the call of handleWar
PlayTrick ==
    /\ pc = "loop"
    /\ LoopGuard
    /\ \E da \in drawCard(playerA), db \in drawCard(playerB) :
          LET cardA == da.card
              cardB == db.card
              st == [stats EXCEPT !.Tricks = @ + 1,
                                  !.ShufflesA = @ + da.shuffled,
                                  !.ShufflesB = @ + db.shuffled]
              t == totalTime + handTime + (da.shuffled + db.shuffled) * shuffleTime
              tr == [NoTrick EXCEPT !.startA = Total(playerA), !.startB = Total(playerB),
                                    !.start = [Wars |-> stats.Wars, DeepWars |-> stats.DeepWars,
                                               TotalWarDepth |-> stats.TotalWarDepth],
                                    !.cards = <<cardA, cardB>>,
                                    !.drawn = Got(da) + Got(db),
                                    !.charges = trick.charges + 1,
                                    !.attempts = trick.attempts,
                                    !.resh = ReshRec(1, playerA, da) \cup ReshRec(2, playerB, db)]
          IN  IF cardA = cardB
              THEN /\ warPile' = <<cardA, cardB>>
                   /\ warArg' = <<cardA, cardB>>
                   /\ depth' = 1
                   /\ pc' = "handleWar"
                   /\ playerA' = da.player
                   /\ playerB' = db.player
                   /\ stats' = st
                   /\ totalTime' = t
                   /\ trick' = tr
              ELSE /\ playerA' = IF TrickWinner(cardA, cardB) = 1
                                 THEN [da.player EXCEPT !.WinningsPile = @ \o <<cardA, cardB>>]
                                 ELSE da.player
                   /\ playerB' = IF TrickWinner(cardA, cardB) = 1
                                 THEN db.player
                                 ELSE [db.player EXCEPT !.WinningsPile = @ \o <<cardA, cardB>>]
                   /\ stats' = IF TrickWinner(cardA, cardB) = 1
                               THEN [st EXCEPT !.PlayerATricks = @ + 1]
                               ELSE [st EXCEPT !.PlayerBTricks = @ + 1]
                   /\ totalTime' = t
                   /\ trick' = [tr EXCEPT !.winner = TrickWinner(cardA, cardB),
                                          !.award = 2]
                   /\ UNCHANGED <<warPile, warArg, depth, pc>>
    /\ UNCHANGED <<handTime, shuffleTime, includeJokers, maxGameTime,
                   gamesToPlay, game, results, batch>>

\* One war level as the history remembers it.
Level(d, timedOut, a, b, cardsA, cardsB, attA, attB, cA, cB, w) ==
    [depth |-> d, timedOut |-> timedOut, totA |-> a, totB |-> b,
     gotA |-> Len(cardsA), gotB |-> Len(cardsB), drewA |-> cardsA, drewB |-> cardsB,
     attA |-> attA, attB |-> attB, cardA |-> cA, cardB |-> cB, winner |-> w, deep |-> "none"]

\* The face-up card of a war level: the last card the player obtained (line 190).
ComparisonCardFirst(cards) == cards[1]
ComparisonCard(cards) == cards[Len(cards)]

\* The depth handleWar adds to TotalWarDepth and the depth handleDeepWar passes on.
DepthSumFlat(sum, d) == sum + 1
DepthSum(sum, d) == sum + d
NextDepthSame(d) == d
NextDepth(d) == d + 1

\* handleWar, lines 171-201
HandleWar ==
    /\ pc = "handleWar"
    /\ LET st == [stats EXCEPT !.Wars = @ + 1, !.TotalWarDepth = DepthSum(@, depth)]
           t == totalTime + handTime
       IN  IF t >= maxGameTime
           THEN LET res == timeoutResult(playerA, playerB)
                    lv == Level(depth, TRUE, Total(playerA), Total(playerB), <<>>, <<>>, 0, 0,
                                NoCard, NoCard, res.Winner)
                IN  Settle(res, playerA, playerB, st, t,
                           [trick EXCEPT !.log = Append(@, lv), !.charges = @ + 1], warArg)
           ELSE \E ra \in drawWarCards(1, playerA), rb \in drawWarCards(2, playerB) :
                   LET cardsA == ra.cards
                       cardsB == rb.cards
                       st2 == [st EXCEPT !.ShufflesA = @ + ra.shuffles,
                                         !.ShufflesB = @ + rb.shuffles]
                       t2 == t + ra.time + rb.time
                       tr(lv) == [trick EXCEPT !.log = Append(@, lv),
                                               !.drawn = @ + Len(cardsA) + Len(cardsB),
                                               !.charges = @ + 1 + ra.attempts + rb.attempts,
                                               !.attempts = @ + ra.attempts + rb.attempts,
                                               !.resh = @ \cup ra.resh \cup rb.resh]
                   IN  IF Len(cardsA) = 0 \/ Len(cardsB) = 0
                       THEN LET res == determineWarWinner(cardsA, cardsB)
                                lv == Level(depth, FALSE, Total(ra.player), Total(rb.player),
                                            cardsA, cardsB, ra.attempts, rb.attempts,
                                            NoCard, NoCard, res.Winner)
                            IN  Settle(res, ra.player, rb.player, st2, t2, tr(lv),
                                       warArg \o cardsA \o cardsB)
                       ELSE LET cardA == ComparisonCard(cardsA)
                                cardB == ComparisonCard(cardsB)
                                pile == warArg \o Front(cardsA) \o Front(cardsB)
                                               \o <<cardA, cardB>>
                                lv(w) == Level(depth, FALSE, Total(ra.player), Total(rb.player),
                                               cardsA, cardsB, ra.attempts,
                                               rb.attempts, cardA, cardB, w)
                            IN  IF cardA = cardB
                                THEN /\ pc' = "handleDeepWar"
                                     /\ warArg' = pile
                                     /\ playerA' = ra.player
                                     /\ playerB' = rb.player
                                     /\ stats' = st2
                                     /\ totalTime' = t2
                                     /\ trick' = tr(lv(0))
                                     /\ UNCHANGED <<warPile, depth>>
                                ELSE LET w == IF cardA > cardB THEN 1 ELSE 2
                                     IN  Settle(WarResult(w), ra.player, rb.player, st2, t2,
                                                tr(lv(w)), pile)
    /\ UNCHANGED <<handTime, shuffleTime, includeJokers, maxGameTime,
                   gamesToPlay, game, results, batch>>

\* handleDeepWar, lines 217-229
HandleDeepWar ==
    /\ pc = "handleDeepWar"
    /\ LET st == [stats EXCEPT !.DeepWars = @ + 1]
           remainingCardsA == Total(playerA)
           remainingCardsB == Total(playerB)
           n == Len(trick.log)
           tr(how, w) == [trick EXCEPT !.log[n].deep = how, !.log[n].winner = w]
       IN  IF remainingCardsA = 0
           THEN Settle(WarResult(2), playerA, playerB, st, totalTime, tr("guardA", 2), warArg)
           ELSE IF remainingCardsB = 0
           THEN Settle(WarResult(1), playerA, playerB, st, totalTime, tr("guardB", 1), warArg)
           ELSE /\ pc' = "handleWar"
                /\ depth' = NextDepth(depth)
                /\ stats' = st
                /\ trick' = tr("recurse", 0)
                /\ UNCHANGED <<playerA, playerB, totalTime, warPile, warArg>>
    /\ UNCHANGED <<handTime, shuffleTime, includeJokers, maxGameTime,
                   gamesToPlay, game, results, batch>>

\* playGame, lines 140-141 and 143-147
IsFinished(pA, pB) == Total(pA) = 0 \/ Total(pB) = 0
GameWinnerSwapped(pA, pB) == IF Total(pA) = 0 THEN 1 ELSE 2
GameWinner(pA, pB) == IF Total(pA) = 0 THEN 2 ELSE 1

\* playGame, lines 140-151
Finish ==
    /\ pc = "loop"
    /\ ~LoopGuard
    /\ LET finished == IsFinished(playerA, playerB)
       IN  stats' = [stats EXCEPT !.Finished = finished,
                                  !.Winner = IF finished THEN GameWinner(playerA, playerB) ELSE @,
                                  !.GameDuration = totalTime * Millisecond]
    /\ pc' = "done"
    /\ UNCHANGED <<handTime, shuffleTime, includeJokers, maxGameTime, playerA, playerB,
                   totalTime, warPile, warArg, depth, trick,
                   gamesToPlay, game, results, batch>>

Next == PlayTrick \/ HandleWar \/ HandleDeepWar \/ Finish

Spec == Init /\ [][Next]_vars

------------------------------------------------------------------------------
(* The batch: runSimulations, lines 80-95 *)

MaxGames == 2

BatchHandTimes == {1}
BatchShuffleTimes == {-1, 0}
BatchMaxGameTimes == {-1, 0, MaxGameTimeBound}

NoPlayer == [DrawPile |-> <<>>, WinningsPile |-> <<>>]

\* The record the deferred recover stores for game number g (line 87)
SentinelUnnumbered(g) == Record(0, [ZeroStats EXCEPT !.Tricks = -1])
Sentinel(g) == Record(g, [ZeroStats EXCEPT !.Tricks = -1])

\* main's call of runSimulations with the parsed flags, up to the loop (lines 59, 81)
InitBatch ==
    /\ handTime \in BatchHandTimes
    /\ shuffleTime \in BatchShuffleTimes
    /\ includeJokers \in BOOLEAN
    /\ maxGameTime \in BatchMaxGameTimes
    /\ gamesToPlay \in 0..MaxGames
    /\ game = 0
    /\ results = ZeroRecords(gamesToPlay)
    /\ batch = NoBatch
    /\ playerA = NoPlayer
    /\ playerB = NoPlayer
    /\ stats = ZeroStats
    /\ totalTime = 0
    /\ warPile = <<>>
    /\ warArg = <<>>
    /\ depth = 0
    /\ pc = "sim"
    /\ trick = NoTrick

\* The locals of playGame are gone once it has returned or panicked.
GameOver ==
    /\ playerA' = NoPlayer
    /\ playerB' = NoPlayer
    /\ stats' = ZeroStats
    /\ totalTime' = 0
    /\ warPile' = <<>>
    /\ warArg' = <<>>
    /\ depth' = 0
    /\ trick' = NoTrick
    /\ game' = game + 1
    /\ pc' = "sim"
    /\ UNCHANGED <<handTime, shuffleTime, includeJokers, maxGameTime, gamesToPlay>>

\* Iteration i of the loop calls playGame (lines 82, 90), which deals (lines 98-106)
StartGame ==
    /\ pc = "sim"
    /\ game < gamesToPlay
    /\ \E d \in Deals(includeJokers) :
          /\ playerA' = d.A
          /\ playerB' = d.B
    /\ stats' = ZeroStats
    /\ totalTime' = 0
    /\ warPile' = <<>>
    /\ warArg' = <<>>
    /\ depth' = 0
    /\ trick' = NoTrick
    /\ pc' = "loop"
    /\ batch' = [batch EXCEPT !.calls = @ + 1]
    /\ UNCHANGED <<handTime, shuffleTime, includeJokers, maxGameTime, gamesToPlay, game, results>>

\* playGame returns into stats[i] and the game is numbered (lines 90-91)
EndGame ==
    /\ pc = "done"
    /\ results' = [results EXCEPT ![game + 1] = Record(game + 1, stats)]
    /\ batch' = [batch EXCEPT !.written = @ \cup {game + 1}]
    /\ GameOver

\* A panic somewhere in playGame, caught by the deferred recover (lines 84-89)
Fault ==
    /\ pc \in {"loop", "handleWar", "handleDeepWar", "done"}
    /\ results' = [results EXCEPT ![game + 1] = Sentinel(game + 1)]
    /\ batch' = [batch EXCEPT !.faulted = @ \cup {game + 1}]
    /\ GameOver

\* The loop of runSimulations ends (lines 82, 94)
Return ==
    /\ pc = "sim"
    /\ ~(game < gamesToPlay)
    /\ pc' = "returned"
    /\ UNCHANGED <<handTime, shuffleTime, includeJokers, maxGameTime, playerA, playerB, stats,
                   totalTime, warPile, warArg, depth, trick, gamesToPlay, game, results, batch>>

NextBatch == Next \/ StartGame \/ EndGame \/ Fault \/ Return

SpecBatch == InitBatch /\ [][NextBatch]_vars

------------------------------------------------------------------------------
(* Properties *)

Boundary == pc \in {"loop", "done"}
Done == pc = "done"
DeckSize == Len(createDeck(includeJokers))
Cards == Total(playerA) + Total(playerB)
WarTrick == Boundary /\ Len(trick.log) > 0
LastLevel == trick.log[Len(trick.log)]
Tie(lv) == lv.cardA # NoCard /\ lv.cardA = lv.cardB

\* C1: at every trick boundary the four piles together hold exactly the cards of
\* the initial deck.
C1_CardConservation == Boundary => Cards = DeckSize

\* C2: after a trick settled by a war, the winner's winnings pile grew by every
\* card the two players drew in that trick (the two tied cards and all war draws).
C2_WinnerTakesWholeWarPile ==
    (WarTrick /\ trick.winner \in {1, 2}) => trick.award = trick.drawn

\* C3: a draw that reshuffles n >= 1 winnings leaves the winnings pile empty and
\* n - 1 cards in the draw pile, which with the returned card are the former winnings.
C3_ReshuffleDraw ==
    \A r \in trick.resh :
        /\ r.win = <<>>
        /\ Len(r.post) = Len(r.pre) - 1
        /\ IsPerm(<<r.card>> \o r.post, r.pre)

\* C4 uses a variant: a number that is never negative and that every step of
\* playGame lowers.  Within a trick it falls with the cards left to draw.
MaxCards == Len(createDeck(TRUE)) + 2 * maxTricks
Phase ==
    CASE pc = "done" -> 0
      [] pc = "loop" -> 1
      [] pc = "handleWar" -> 2 + 2 * Cards
      [] pc = "handleDeepWar" -> 3 + 2 * Cards
Variant == (maxTricks - stats.Tricks) * (4 + 2 * MaxCards) + Phase

\* C4: playGame terminates (every step lowers the variant, which is never
\* negative); a trick starts only while both players hold a card, Tricks is below
\* the ceiling and elapsed time is below maxGameTime; Tricks never exceeds the ceiling.
C4_Terminates ==
    /\ [](Variant >= 0 /\ Cards <= MaxCards /\ stats.Tricks <= maxTricks)
    /\ [][Variant' < Variant]_vars
    /\ [][stats'.Tricks # stats.Tricks =>
            /\ stats'.Tricks = stats.Tricks + 1
            /\ Total(playerA) > 0 /\ Total(playerB) > 0
            /\ stats.Tricks < maxTricks
            /\ totalTime < maxGameTime]_vars

C4_Witness == Done /\ stats.Tricks = maxTricks /\ Total(playerA) > 0 /\ Total(playerB) > 0

\* C5: on return, Finished holds exactly when a player holds no card; then Winner
\* is a player who holds a card; a game cut off with both players holding cards
\* has Finished false and Winner 0.
C5_FinishedAndWinner ==
    Done =>
        /\ stats.Finished <=> (Total(playerA) = 0 \/ Total(playerB) = 0)
        /\ stats.Finished =>
              \/ stats.Winner = 1 /\ Total(playerA) > 0
              \/ stats.Winner = 2 /\ Total(playerB) > 0
        /\ (Total(playerA) > 0 /\ Total(playerB) > 0) => (~stats.Finished /\ stats.Winner = 0)

C5_Witness == Done /\ stats.Finished /\ stats.Winner = 1 /\ stats.Tricks > 0

\* A war level that is timed out: the comparison charge reaches the ceiling.
TimesOut == pc = "handleWar" /\ totalTime + handTime >= maxGameTime

\* The step of a timed-out war level: nobody draws, the war goes to player w,
\* who is credited the trick and the pile.
TimeoutStep(w) ==
    /\ pc' = "loop"
    /\ trick'.drawn = trick.drawn
    /\ playerA'.DrawPile = playerA.DrawPile
    /\ playerB'.DrawPile = playerB.DrawPile
    /\ stats'.ShufflesA = stats.ShufflesA
    /\ stats'.ShufflesB = stats.ShufflesB
    /\ totalTime' = totalTime + handTime
    /\ trick'.winner = w
    /\ w = 1 => /\ playerB' = playerB
                /\ Len(playerA'.WinningsPile) > Len(playerA.WinningsPile)
                /\ stats'.PlayerATricks = stats.PlayerATricks + 1
                /\ stats'.PlayerBTricks = stats.PlayerBTricks
    /\ w = 2 => /\ playerA' = playerA
                /\ Len(playerB'.WinningsPile) > Len(playerB.WinningsPile)
                /\ stats'.PlayerBTricks = stats.PlayerBTricks + 1
                /\ stats'.PlayerATricks = stats.PlayerATricks

\* C6 as stated: a timed-out war level draws nothing and goes to the player with
\* strictly more cards, and to player A when both hold the same number.
C6_TimeoutFavoursA ==
    [][TimesOut => TimeoutStep(IF Total(playerA) >= Total(playerB) THEN 1 ELSE 2)]_vars

\* C6 as amended: a timed-out war level draws nothing and goes to the player with
\* strictly more cards, and to player B when both hold the same number.
C6_TimeoutFavoursB ==
    [][TimesOut => TimeoutStep(IF Total(playerA) > Total(playerB) THEN 1 ELSE 2)]_vars

C6_Witness ==
    /\ WarTrick /\ LastLevel.timedOut
    /\ LastLevel.totA = LastLevel.totB
    /\ trick.winner = 2

\* C7: with 0 < maxGameTime < handTime the game returns Finished = false and Tricks = 0.
C7_NoTrickBelowHandTime ==
    (Done /\ 0 < maxGameTime /\ maxGameTime < handTime)
        => (~stats.Finished /\ stats.Tricks = 0)

\* C8: with maxGameTime > 0 the recorded GameDuration never exceeds maxGameTime.
C8_DurationWithinCeiling ==
    (Done /\ maxGameTime > 0) => stats.GameDuration <= maxGameTime * Millisecond

\* The war counters since the start of the trick.
WarDelta ==
    <<stats.Wars - trick.start.Wars, stats.DeepWars - trick.start.DeepWars,
      stats.TotalWarDepth - trick.start.TotalWarDepth>>

\* C9: every handleWar at depth d adds 1 to Wars and d to TotalWarDepth and every
\* tied war comparison adds 1 to DeepWars; a tie settled at the first war level
\* without a tied comparison changes (Wars, DeepWars, TotalWarDepth) by (1, 0, 1),
\* one whose first comparison ties and whose second resolves by (2, 1, 3).
C9_WarCounters ==
    /\ [][pc = "handleWar" =>
            /\ stats'.Wars = stats.Wars + 1
            /\ stats'.TotalWarDepth = stats.TotalWarDepth + depth
            /\ depth = Len(trick'.log)
            /\ stats'.DeepWars = stats.DeepWars]_vars
    /\ [][pc = "handleDeepWar" =>
            /\ Tie(LastLevel)
            /\ stats'.DeepWars = stats.DeepWars + 1
            /\ stats'.Wars = stats.Wars
            /\ stats'.TotalWarDepth = stats.TotalWarDepth]_vars
    /\ [](WarTrick =>
            /\ (~Tie(trick.log[1])) => WarDelta = <<1, 0, 1>>
            /\ (Len(trick.log) >= 2 /\ ~Tie(trick.log[2])) => WarDelta = <<2, 1, 3>>)

C9_Witness ==
    /\ WarTrick /\ Len(trick.log) = 2 /\ Tie(trick.log[1])
    /\ trick.log[2].cardA # NoCard /\ ~Tie(trick.log[2])
    /\ WarDelta = <<2, 1, 3>>

\* C10: in a war level that is not timed out, a player who obtains no card loses
\* the war whatever the opponent obtained, the opponent who obtained a card wins
\* it, and the loser is credited neither the pile nor the trick.
C10_EmptyHandedLoses ==
    [][(pc = "handleWar" /\ ~TimesOut) =>
          LET lv == trick'.log[Len(trick'.log)]
          IN  /\ lv.gotA = 0 =>
                    /\ pc' = "loop" /\ trick'.winner = 2
                    /\ Total(playerA') = 0
                    /\ Len(playerB'.WinningsPile) > 0
                    /\ stats'.PlayerATricks = stats.PlayerATricks
                    /\ stats'.PlayerBTricks = stats.PlayerBTricks + 1
              /\ lv.gotB = 0 =>
                    /\ pc' = "loop" /\ trick'.winner = 1
                    /\ Total(playerB') = 0
                    /\ Len(playerA'.WinningsPile) > 0
                    /\ stats'.PlayerBTricks = stats.PlayerBTricks
                    /\ stats'.PlayerATricks = stats.PlayerATricks + 1]_vars

C10_Witness ==
    /\ WarTrick /\ ~LastLevel.timedOut
    /\ LastLevel.gotB = 0 /\ LastLevel.gotA > 0
    /\ trick.winner = 1 /\ Total(playerB) = 0

\* The war level the step from pc = "handleWar" has just logged.
NewLevel == trick'.log[Len(trick'.log)]
Min(a, b) == IF a < b THEN a ELSE b
Drew(lv) == lv.gotA >= 1 /\ lv.gotB >= 1

\* What a war level that is not timed out always does: each player makes at most
\* WarDraws attempts with drawCard and stops at the first that yields no card.
WarDrawStep(lv) ==
    /\ lv.gotA \in 0..WarDraws /\ lv.gotB \in 0..WarDraws
    /\ lv.attA = Min(WarDraws, lv.gotA + 1) /\ lv.attB = Min(WarDraws, lv.gotB + 1)
    /\ lv.gotA < WarDraws => lv.totA = 0
    /\ lv.gotB < WarDraws => lv.totB = 0
    /\ trick'.drawn = trick.drawn + lv.gotA + lv.gotB

\* C11 as stated: of the cards a player obtains in a war level the first
\* min(3, available) lie face-down and only a 4th card is a comparison card, so a
\* player who obtains fewer than 4 cards has no comparison card.
C11_OnlyFourthCardCompares ==
    [][(pc = "handleWar" /\ ~TimesOut) =>
          /\ WarDrawStep(NewLevel)
          /\ Drew(NewLevel) =>
                /\ NewLevel.cardA # NoCard => NewLevel.gotA = WarDraws
                /\ NewLevel.cardB # NoCard => NewLevel.gotB = WarDraws]_vars

\* C11 as amended: when both players obtain a card, the last card each obtained
\* is the comparison card and the cards before it (at most 3) lie face-down; the
\* war pile of the level grows by all of them and the higher comparison card wins.
C11_LastCardCompares ==
    [][(pc = "handleWar" /\ ~TimesOut) =>
          LET lv == NewLevel
          IN  /\ WarDrawStep(lv)
              /\ Drew(lv) =>
                    /\ lv.cardA = lv.drewA[lv.gotA] /\ lv.cardB = lv.drewB[lv.gotB]
                    /\ Len(Front(lv.drewA)) = Min(WarDraws - 1, lv.gotA - 1)
                    /\ Len(Front(lv.drewB)) = Min(WarDraws - 1, lv.gotB - 1)
                    /\ lv.cardA = lv.cardB =>
                          /\ pc' = "handleDeepWar"
                          /\ warArg' = warArg \o Front(lv.drewA) \o Front(lv.drewB)
                                              \o <<lv.cardA, lv.cardB>>
                    /\ lv.cardA > lv.cardB => (pc' = "loop" /\ trick'.winner = 1)
                    /\ lv.cardA < lv.cardB => (pc' = "loop" /\ trick'.winner = 2)]_vars

C11_Witness ==
    /\ WarTrick /\ ~LastLevel.timedOut
    /\ LastLevel.gotA = 2 /\ LastLevel.gotB = WarDraws
    /\ LastLevel.drewA[1] > LastLevel.cardB /\ LastLevel.cardA < LastLevel.cardB
    /\ trick.winner = 2

\* What every activation of handleDeepWar does, with loserA and loserB telling
\* when the guard declares player A, player B the loser of the war.
DeepWarStep(loserA, loserB) ==
    /\ stats'.DeepWars = stats.DeepWars + 1
    /\ (loserA \/ loserB) =>
          /\ pc' = "loop"
          /\ trick'.drawn = trick.drawn
          /\ playerA'.DrawPile = playerA.DrawPile /\ playerB'.DrawPile = playerB.DrawPile
          /\ totalTime' = totalTime
    /\ loserA => (trick'.winner = 2 /\ stats'.PlayerBTricks = stats.PlayerBTricks + 1
                  /\ stats'.PlayerATricks = stats.PlayerATricks)
    /\ loserB => (trick'.winner = 1 /\ stats'.PlayerATricks = stats.PlayerATricks + 1
                  /\ stats'.PlayerBTricks = stats.PlayerBTricks)
    /\ ~(loserA \/ loserB) =>
          /\ pc' = "handleWar"
          /\ depth' = depth + 1
          /\ playerA' = playerA /\ playerB' = playerB
          /\ totalTime' = totalTime

\* C12 as stated: a tied war comparison increments DeepWars; a player whose
\* remaining cards are zero is then declared the loser of the war and nobody
\* draws; otherwise handleWar is re-entered at depth + 1.
C12_ZeroCardPlayerLoses ==
    [][pc = "handleDeepWar" => DeepWarStep(Total(playerA) = 0, Total(playerB) = 0)]_vars

\* C12 as amended: as stated, except that when both players' remaining cards are
\* zero player A is declared the loser and player B the winner.
C12_ZeroCardGuard ==
    [][pc = "handleDeepWar" =>
          DeepWarStep(Total(playerA) = 0, Total(playerB) = 0 /\ Total(playerA) # 0)]_vars

C12_Witness ==
    /\ WarTrick /\ LastLevel.deep = "guardA"
    /\ LastLevel.totA = 0 /\ LastLevel.totB = 0
    /\ trick.winner = 2

\* C13: runSimulations returns gamesToPlay records in order, record i numbered
\* i+1; a game that faulted left the sentinel (Tricks = -1, Finished = false) and
\* every other game was played and recorded.
C13_FaultContainment ==
    (pc = "returned" /\ gamesToPlay >= 1) =>
        /\ Len(results) = gamesToPlay
        /\ batch.calls = gamesToPlay
        /\ batch.faulted \cup batch.written = 1..gamesToPlay
        /\ \A k \in 1..gamesToPlay :
              /\ results[k].GameNumber = k
              /\ k \in batch.faulted => (results[k].Tricks = -1 /\ ~results[k].Finished)
              /\ k \notin batch.faulted => results[k].Tricks >= 0

C13_Witness ==
    /\ pc = "returned" /\ gamesToPlay = 2
    /\ batch.faulted = {1}
    /\ results[1].Tricks = -1 /\ results[2].Tricks >= 1

Malformed == handTime < 0 \/ shuffleTime < 0 \/ maxGameTime <= 0 \/ gamesToPlay = 0

\* C14: a malformed configuration (negative handTime or shuffleTime,
\* maxGameTime <= 0, gamesToPlay = 0) never leads to a call of playGame nor to a record.
C14_MalformedRejected ==
    Malformed => (batch.calls = 0 /\ batch.written = {} /\ results = ZeroRecords(gamesToPlay))

Kept(p) == IF Len(p.DrawPile) = 0 THEN <<>> ELSE p.WinningsPile

\* C16: a trick whose two cards differ appends both cards, A's first, to the
\* winnings pile of the player with the higher card, adds 1 to that player's
\* trick wins only, and leaves Wars, DeepWars and TotalWarDepth unchanged.
C16_NonTieTrick ==
    [][(pc = "loop" /\ pc' = "loop" /\ stats'.Tricks = stats.Tricks + 1) =>
          LET cardA == trick'.cards[1]
              cardB == trick'.cards[2]
          IN  /\ cardA # cardB
              /\ cardA > cardB =>
                    /\ playerA'.WinningsPile = Kept(playerA) \o <<cardA, cardB>>
                    /\ playerB'.WinningsPile = Kept(playerB)
                    /\ stats'.PlayerATricks = stats.PlayerATricks + 1
                    /\ stats'.PlayerBTricks = stats.PlayerBTricks
              /\ cardA < cardB =>
                    /\ playerB'.WinningsPile = Kept(playerB) \o <<cardA, cardB>>
                    /\ playerA'.WinningsPile = Kept(playerA)
                    /\ stats'.PlayerBTricks = stats.PlayerBTricks + 1
                    /\ stats'.PlayerATricks = stats.PlayerATricks
              /\ stats'.Wars = stats.Wars
              /\ stats'.DeepWars = stats.DeepWars
              /\ stats'.TotalWarDepth = stats.TotalWarDepth]_vars

C16_Witness ==
    /\ pc = "loop" /\ trick.log = <<>> /\ Len(trick.cards) = 2
    /\ trick.cards[1] < trick.cards[2] /\ trick.winner = 2
    /\ Len(playerB.WinningsPile) > 2

\* The draw attempts a step gives each player: one in a trick, up to WarDraws in
\* a war level that is not timed out, none otherwise.
Attempts ==
    IF pc = "loop" /\ stats'.Tricks # stats.Tricks THEN 1
    ELSE IF pc = "handleWar" /\ ~TimesOut THEN WarDraws
    ELSE 0

\* The reshuffles of a player given n draw attempts: one when the draw pile runs
\* out within them and the winnings pile has cards.
Reshuffles(player, n) ==
    IF Len(player.DrawPile) < n /\ Len(player.WinningsPile) > 0 THEN 1 ELSE 0

ShuffleTotal == stats.ShufflesA + stats.ShufflesB

\* The reshuffles of player who the history of the current trick holds before a step.
Recorded(who) == IF Attempts = 1 THEN 0 ELSE Cardinality({r \in trick.resh : r.who = who})

\* C17: every reshuffle, in a trick or in a war at any depth, adds 1 to the
\* drawing player's reshuffle counter only and charges shuffleTime once, so the
\* elapsed time is always the hand time charged plus shuffleTime x (ShufflesA + ShufflesB).
C17_ReshuffleAccounting ==
    /\ [](pc # "done" => totalTime = handTime * trick.charges + shuffleTime * ShuffleTotal)
    /\ [][LET ra == Reshuffles(playerA, Attempts)
              rb == Reshuffles(playerB, Attempts)
          IN  /\ stats'.ShufflesA = stats.ShufflesA + ra
              /\ stats'.ShufflesB = stats.ShufflesB + rb
              /\ Cardinality({r \in trick'.resh : r.who = 1})
                    = Recorded(1) + ra
              /\ Cardinality({r \in trick'.resh : r.who = 2})
                    = Recorded(2) + rb
              /\ pc # "done" =>
                    totalTime' - totalTime = handTime * (trick'.charges - trick.charges)
                                             + shuffleTime * (ra + rb)]_vars

C17_Witness ==
    /\ WarTrick /\ LastLevel.depth = 2 /\ ~LastLevel.timedOut
    /\ shuffleTime = 1
    /\ \E r \in trick.resh : r.who = 1
    /\ stats.ShufflesB >= 1
    /\ totalTime = handTime * trick.charges + ShuffleTotal

EmptyDraw(player) ==
    Total(player) = 0 => drawCard(player) = {[card |-> NoCard, shuffled |-> 0, player |-> player]}

\* C18: drawCard on a player with both piles empty returns the no-card value
\* with no reshuffle signalled and leaves the player as it was; the war level in
\* which that happens leaves the player's piles empty and reshuffle counter unchanged
\* and charges no shuffle time for that player.
C18_EmptyDrawIsNoCard ==
    /\ [](EmptyDraw(playerA) /\ EmptyDraw(playerB))
    /\ [][(pc = "handleWar" /\ ~TimesOut) =>
             LET lv == NewLevel
             IN  /\ Total(playerA) = 0 =>
                       /\ lv.gotA = 0 /\ lv.attA = 1 /\ lv.totA = 0 /\ lv.cardA = NoCard
                       /\ stats'.ShufflesA = stats.ShufflesA
                       /\ totalTime' - totalTime
                             = handTime * (1 + lv.attA + lv.attB)
                               + shuffleTime * (stats'.ShufflesB - stats.ShufflesB)
                 /\ Total(playerB) = 0 =>
                       /\ lv.gotB = 0 /\ lv.attB = 1 /\ lv.totB = 0 /\ lv.cardB = NoCard
                       /\ stats'.ShufflesB = stats.ShufflesB
                       /\ totalTime' - totalTime
                             = handTime * (1 + lv.attA + lv.attB)
                               + shuffleTime * (stats'.ShufflesA - stats.ShufflesA)]_vars

C18_Witness ==
    /\ WarTrick /\ ~LastLevel.timedOut
    /\ LastLevel.depth = 1 /\ LastLevel.gotA = 0 /\ LastLevel.attA = 1
    /\ LastLevel.gotB >= 1
    /\ shuffleTime = 1 /\ \E r \in trick.resh : r.who = 2

\* C20: with maxGameTime <= 0 the game ends at once as unfinished: no trick is
\* played, no card is drawn, and the record has Tricks = 0, Wars = 0,
\* Finished = false, Winner = 0 and GameDuration = 0.
C20_NonPositiveCeiling ==
    /\ [](maxGameTime <= 0 =>
            /\ stats.Tricks = 0 /\ stats.Wars = 0 /\ stats.Winner = 0
            /\ ~stats.Finished /\ stats.GameDuration = 0
            /\ trick = NoTrick /\ totalTime = 0
            /\ Len(playerA.DrawPile) = DeckSize \div 2 /\ playerA.WinningsPile = <<>>
            /\ Len(playerB.DrawPile) = DeckSize - DeckSize \div 2 /\ playerB.WinningsPile = <<>>)
    /\ [][(maxGameTime <= 0 /\ pc = "loop") => pc' = "done"]_vars

C20_Witness == Done /\ maxGameTime = 0 /\ stats.Tricks = 0 /\ ~stats.Finished

\* C21: a game recorded as Finished neither timed out nor reached the maximum
\* number of tricks: when playGame returns Finished = true, elapsed time is below
\* maxGameTime and Tricks is below the trick ceiling.
C21_FinishedBelowCeilings ==
    (Done /\ stats.Finished) => (totalTime < maxGameTime /\ stats.Tricks < maxTricks)

\* The hands pA, pB are a fresh deal: every rank MinRank..MaxRank NumSuits times,
\* two jokers if asked for, half of the cards in each draw pile, no winnings.
FullDeck(pile, jokers) ==
    /\ \A r \in MinRank..MaxRank : Count(pile, r) = NumSuits
    /\ Count(pile, JokerRank) = (IF jokers THEN 2 ELSE 0)
    /\ Len(pile) = (MaxRank - MinRank + 1) * NumSuits + (IF jokers THEN 2 ELSE 0)

FreshDeal(pA, pB, jokers) ==
    /\ FullDeck(pA.DrawPile \o pB.DrawPile, jokers)
    /\ 2 * Len(pA.DrawPile) = Len(pA.DrawPile \o pB.DrawPile)
    /\ Len(pB.DrawPile) = Len(pA.DrawPile)
    /\ pA.WinningsPile = <<>> /\ pB.WinningsPile = <<>>

\* C22: every game of a batch starts from the freshly built deck split in two
\* equal draw piles that together hold four cards of each rank plus the two
\* jokers if included, with empty winnings piles, zero counters and zero elapsed
\* time, whatever the previous game left.
C22_FreshDeal ==
    [][(pc = "sim" /\ pc' = "loop") =>
          /\ FreshDeal(playerA', playerB', includeJokers)
          /\ stats' = ZeroStats /\ totalTime' = 0 /\ trick' = NoTrick]_vars

C22_Witness ==
    /\ pc = "loop" /\ game = 1 /\ stats.Tricks = 0 /\ includeJokers
    /\ batch.written = {1} /\ results[1].Tricks >= 2 /\ results[1].Wars >= 1
    /\ FreshDeal(playerA, playerB, TRUE)

\* C23: a war level that is not timed out charges handTime once for the
\* comparison and once for every draw attempt of each player, the failed attempt
\* included (1 to WarDraws attempts per player); at every trick boundary elapsed
\* time = handTime x (Tricks + Wars + war draw attempts) + shuffleTime x (ShufflesA + ShufflesB).
C23_WarHandTime ==
    /\ [](Boundary => totalTime = handTime * (stats.Tricks + stats.Wars + trick.attempts)
                                  + shuffleTime * ShuffleTotal)
    /\ [][(pc = "handleWar" /\ ~TimesOut) =>
             LET lv == NewLevel
             IN  /\ lv.attA \in 1..WarDraws /\ lv.attB \in 1..WarDraws
                 /\ lv.attA = Min(WarDraws, lv.gotA + 1)
                 /\ lv.attB = Min(WarDraws, lv.gotB + 1)
                 /\ trick'.attempts = trick.attempts + lv.attA + lv.attB
                 /\ stats'.Wars = stats.Wars + 1
                 /\ totalTime' - totalTime
                       = handTime * (1 + lv.attA + lv.attB)
                         + shuffleTime * (stats'.ShufflesA - stats.ShufflesA
                                          + stats'.ShufflesB - stats.ShufflesB)]_vars

C23_Witness ==
    /\ WarTrick /\ ~LastLevel.timedOut /\ handTime = 1
    /\ LastLevel.gotA = 3 /\ LastLevel.attA = WarDraws
    /\ LastLevel.gotB = 3 /\ LastLevel.attB = WarDraws
    /\ stats.Tricks = 1 /\ stats.Wars = 1 /\ totalTime = 10

TrickWins == stats.PlayerATricks + stats.PlayerBTricks

\* A step that completes a trick: a trick without a tie, or the return of the
\* outermost handleWar into the trick loop.
CompletesTrick ==
    \/ pc = "loop" /\ pc' = "loop" /\ stats'.Tricks = stats.Tricks + 1
    \/ pc \in {"handleWar", "handleDeepWar"} /\ pc' = "loop"

\* C24: every completed trick credits exactly one trick win to the player it
\* names the winner, however the trick is decided; at every trick boundary
\* PlayerATricks + PlayerBTricks = Tricks, and inside a war one win is still missing.
C24_OneWinPerTrick ==
    /\ [](IF Boundary THEN TrickWins = stats.Tricks ELSE TrickWins = stats.Tricks - 1)
    /\ [][CompletesTrick =>
             /\ trick'.winner \in {1, 2}
             /\ stats'.PlayerATricks = stats.PlayerATricks + (IF trick'.winner = 1 THEN 1 ELSE 0)
             /\ stats'.PlayerBTricks = stats.PlayerBTricks + (IF trick'.winner = 2 THEN 1 ELSE 0)]_vars

C24_Witness ==
    /\ Done /\ stats.Tricks >= 3 /\ stats.DeepWars >= 1
    /\ stats.PlayerATricks >= 1 /\ stats.PlayerBTricks >= 1
    /\ WarTrick /\ LastLevel.depth = 2 /\ LastLevel.deep = "none"

InWar == pc \in {"handleWar", "handleDeepWar"}

\* C25: a war level that recurses has taken at least one card from each player,
\* and handleDeepWar recurses only while both players hold a card, so the depth of
\* handleWar within a trick never exceeds the number of cards the poorer player
\* held when the trick began, whatever handTime is.
C25_WarDepthBounded ==
    /\ [](InWar => (depth >= 1 /\ depth <= Min(trick.startA, trick.startB)))
    /\ [](WarTrick => Len(trick.log) <= Min(trick.startA, trick.startB))
    /\ [][(pc = "handleWar" /\ pc' = "handleDeepWar") =>
             /\ Total(playerA') < Total(playerA)
             /\ Total(playerB') < Total(playerB)
             /\ depth' = depth]_vars
    /\ [][(pc = "handleDeepWar" /\ pc' = "handleWar") =>
             /\ Total(playerA) > 0 /\ Total(playerB) > 0
             /\ depth' = depth + 1
             /\ playerA' = playerA /\ playerB' = playerB]_vars

C25_Witness ==
    /\ pc = "handleWar" /\ depth = 2 /\ handTime = 0
    /\ Len(trick.log) = 1 /\ Tie(trick.log[1])
    /\ Total(playerA) >= 1 /\ Total(playerB) >= 1
    /\ Total(playerA) < trick.startA /\ Total(playerB) < trick.startB

\* The ranks of the cards of the game
Ranks == MinRank..(IF includeJokers THEN JokerRank ELSE MaxRank)
Held(player) == Range(player.DrawPile) \cup Range(player.WinningsPile)

\* C26: the two cards drawn at the start of a trick are real cards, taken from
\* the piles of a player who held at least one card, never the no-card value.
C26_TrickCardsAreReal ==
    /\ [](Len(trick.cards) = 2 =>
            (trick.cards[1] \in Ranks /\ trick.cards[2] \in Ranks /\ trick.startA >= 1
             /\ trick.startB >= 1))
    /\ [][(pc = "loop" /\ stats'.Tricks = stats.Tricks + 1) =>
             /\ Total(playerA) >= 1 /\ Total(playerB) >= 1
             /\ trick'.cards[1] \in Held(playerA) /\ trick'.cards[2] \in Held(playerB)
             /\ trick'.cards[1] # NoCard /\ trick'.cards[2] # NoCard
             /\ trick'.drawn = 2]_vars

C26_Witness ==
    /\ Boundary /\ trick.log = <<>> /\ Len(trick.cards) = 2
    /\ trick.startA = 1 /\ trick.startB > 1
    /\ trick.cards[1] > trick.cards[2]

\* Player who reshuffled earlier in the trick a step belongs to.
ReshuffledBefore(who) == pc # "loop" /\ \E r \in trick.resh : r.who = who

\* What a step may do to the reshuffle counter n of player who: leave it, or add
\* 1 if the player has not reshuffled in the trick yet and then holds no winnings.
AtMostOneReshuffle(who, n, nAfter, playerAfter) ==
    /\ nAfter \in {n, n + 1}
    /\ nAfter = n + 1 =>
          /\ ~ReshuffledBefore(who)
          /\ \E r \in trick'.resh : r.who = who
          /\ pc' # "loop" => playerAfter.WinningsPile = <<>>
    /\ ReshuffledBefore(who) => (pc' # "loop" => playerAfter.WinningsPile = <<>>)

\* C27: within one trick, the draws of a war of any depth included, each player
\* reshuffles at most once, since no winnings pile grows before the trick is
\* settled; hence ShufflesA <= Tricks and ShufflesB <= Tricks at every trick boundary.
C27_OneReshufflePerTrick ==
    /\ [](Boundary => (stats.ShufflesA <= stats.Tricks /\ stats.ShufflesB <= stats.Tricks))
    /\ [][/\ AtMostOneReshuffle(1, stats.ShufflesA, stats'.ShufflesA, playerA')
          /\ AtMostOneReshuffle(2, stats.ShufflesB, stats'.ShufflesB, playerB')]_vars

C27_Witness ==
    /\ WarTrick /\ ~LastLevel.timedOut
    /\ \E r \in trick.resh : r.who = 1 /\ Len(r.pre) = trick.startA
    /\ LastLevel.gotA \in 1..(WarDraws - 1)
    /\ {r \in trick.resh : r.who = 2} = {}
    /\ stats.ShufflesA = 1

\* The player credited with the last completed trick
Credited == IF trick.winner = 1 THEN playerA ELSE playerB

\* C28: at every trick boundary after a trick the player credited with it holds
\* at least two cards, so the players never both hold zero cards there; a game
\* returned as Finished has exactly one player with zero cards and the other as Winner.
C28_WinnerHoldsCards ==
    /\ (Boundary /\ stats.Tricks > 0) => (trick.winner \in {1, 2} /\ Total(Credited) >= 2)
    /\ Boundary => ~(Total(playerA) = 0 /\ Total(playerB) = 0)
    /\ (Done /\ stats.Finished) =>
          \/ Total(playerA) = 0 /\ Total(playerB) >= 2 /\ stats.Winner = 2
          \/ Total(playerB) = 0 /\ Total(playerA) >= 2 /\ stats.Winner = 1

C28_Witness ==
    /\ Done /\ stats.Finished /\ stats.Winner = 2
    /\ WarTrick /\ LastLevel.deep = "guardA" /\ LastLevel.totA = 0 /\ LastLevel.totB = 0
    /\ Total(playerA) = 0 /\ Total(playerB) = 2

====
